---- MODULE Spec2Model ----
(***************************************************************************)
(* Model of .github/scripts/extract_strings.py: the StringExtraction       *)
(* class (extractStrings, getTranslations) and the writer loop of main.    *)
(*                                                                         *)
(* Strings that the script takes apart or puts together (paths, ids,       *)
(* composite keys) are sequences of tokens: the path "a/x.ftl" is          *)
(* <<"a", "x", ".ftl">>, the id "hello" is <<"hello">> and the composite   *)
(* key "x:hello" is <<"x", ":", "hello">>.  Locale codes are TLA+ strings  *)
(* ordered by their code points, as Python orders str.                     *)
(***************************************************************************)
EXTENDS Integers, Sequences, FiniteSets, TLC

VARIABLES
    all_locales,      \* project_config.all_locales, in iteration order
    project_files,    \* the reference paths paths.ProjectFiles yields, in order
    disk,             \* which files exist and the message ids each holds
    translations,     \* self.translations: locale -> (composite key -> text)
    reference_cache,  \* reference_cache: key_path -> set of reference keys
    li,               \* position of the outer loop in all_locales
    fi,               \* position of the inner loop in project_files
    pc,               \* which part of main is running
    json_output,      \* the value getTranslations returned
    written           \* files main has written under dest_path

vars == <<all_locales, project_files, disk, translations, reference_cache,
          li, fi, pc, json_output, written>>

(***************************************************************************)
(* Bounds and the universe the inputs are drawn from.                      *)
(***************************************************************************)
MaxLocales == 2

Locales == {"de", "en-US", "fr"}

reference_locale == "en-US"

Hello == <<"hello">>
Bye == <<"bye">>

PathA == <<"a", "x", ".ftl">>
PathZ == <<"c", "z", ".txt">>
PathBx == <<"b", "x", ".ftl">>
PathBy == <<"b", "y", ".ftl">>

FileLists == { <<PathA, PathZ, PathBx>>, <<PathA, PathZ, PathBy>> }

AllPaths == {PathA, PathZ, PathBx, PathBy}

Missing == [exists |-> FALSE, keys |-> {}]

File(ks) == [exists |-> TRUE, keys |-> ks]

ReferenceFiles == {Missing, File({}), File({Hello}), File({Hello, Bye})}

LocalizedFiles == {Missing, File({Hello}), File({Hello, Bye})}

Supported(files) == { files[i] : i \in DOMAIN files } \ {PathZ}

\* The reference copy of every file, and every locale's localized copy.  The
\* file of unsupported format exists everywhere and holds one message.
ReferenceDisks(files) ==
    { [p \in { files[i] : i \in DOMAIN files } |->
          IF p = PathZ THEN File({Hello}) ELSE f[p]] :
      f \in [Supported(files) -> ReferenceFiles] }

LocalizedDisks(locs, files) ==
    { [lp \in locs \X { files[i] : i \in DOMAIN files } |->
          IF lp[2] = PathZ THEN File({Hello}) ELSE f[lp]] :
      f \in [locs \X Supported(files) -> LocalizedFiles] }

Min(a, b) == IF a < b THEN a ELSE b

\* Every list of distinct locale codes of at most MaxLocales entries.
LocaleLists ==
    UNION { { s \in [1..n -> Locales] :
                \A i, j \in 1..n : i # j => s[i] # s[j] } :
            n \in 0..Min(MaxLocales, Cardinality(Locales)) }

(***************************************************************************)
(* Python values: dicts are functions, a defaultdict(dict) answers a       *)
(* missing key with a new empty dict.                                      *)
(***************************************************************************)
EmptyDict == [k \in {} |-> {}]

\* defaultdict.__getitem__, read side
Lookup(d, k) == IF k \in DOMAIN d THEN d[k] ELSE EmptyDict

\* d[k] = v
Store(d, k, v) == [x \in DOMAIN d \cup {k} |-> IF x = k THEN v ELSE d[x]]

\* Variant of Update: a key already present keeps its value.
UpdateKeepsOld(d, new) ==
    [x \in DOMAIN d \cup DOMAIN new |-> IF x \in DOMAIN d THEN d[x] ELSE new[x]]

\* d.update(new): the new pairs overwrite the old ones
Update(d, new) ==
    [x \in DOMAIN d \cup DOMAIN new |-> IF x \in DOMAIN new THEN new[x] ELSE d[x]]

(***************************************************************************)
(* Paths, ids and keys.                                                    *)
(***************************************************************************)
\* os.path.splitext(key_path)[0]: the path without its extension
SplitExt(key_path) == SubSeq(key_path, 1, Len(key_path) - 1)

\* os.path.basename: the last component
Basename(path) == SubSeq(path, Len(path), Len(path))

ExperimentId(key_path) == Basename(SplitExt(key_path))

\* f"{experiment_id}:{entity.key}"
CompositeKey(experiment_id, key) == experiment_id \o <<":">> \o key

\* str.split(":"): the pieces between the separators
RECURSIVE Split(_)
Split(str) ==
    IF \A i \in DOMAIN str : str[i] # ":"
    THEN <<str>>
    ELSE LET i == CHOOSE i \in DOMAIN str :
                      /\ str[i] = ":"
                      /\ \A j \in 1..(i - 1) : str[j] # ":"
         IN  <<SubSeq(str, 1, i - 1)>> \o Split(SubSeq(str, i + 1, Len(str)))

\* parser.getParser raises UserWarning for a path no parser matches
SupportedExtensions == {".ftl"}

HasParser(path) == path[Len(path)] \in SupportedExtensions

(***************************************************************************)
(* The files on disk.  An entity of a file has one of the file's keys and  *)
(* a raw value; the text of a message names the file it was read from.     *)
(***************************************************************************)
ReferenceFile(d, key_path) == d.reference[key_path]

L10nFile(d, locale, key_path) == d.l10n[<<locale, key_path>>]

\* p.readFile(file); p.parse(): key -> raw_val
Parse(owner, key_path, file) == [k \in file.keys |-> <<owner, key_path[1]>>]

\* (f"{experiment_id}:{entity.key}", entity.raw_val) for entity in p.parse()
Entries(experiment_id, parsed) ==
    [ck \in { CompositeKey(experiment_id, k) : k \in DOMAIN parsed } |->
        parsed[CHOOSE k \in DOMAIN parsed : CompositeKey(experiment_id, k) = ck]]

(***************************************************************************)
(* extractStrings, one iteration at a time.  st is the pair of the         *)
(* translation table and the reference cache.                              *)
(***************************************************************************)
\* Variant of PairSkipped: the UserWarning of getParser is not caught as a skip.
PairSkippedIgnoresFormat(d, locale, key_path) ==
    \/ ~L10nFile(d, locale, key_path).exists
    \/ ~ReferenceFile(d, key_path).exists

\* the three "continue" of the inner loop
PairSkipped(d, locale, key_path) ==
    \/ ~L10nFile(d, locale, key_path).exists
    \/ ~ReferenceFile(d, key_path).exists
    \/ ~HasParser(key_path)

\* Variant of CacheReference: the reference file is read on every visit.
CacheReferenceAlways(d, st, key_path) ==
    LET parsed == Parse("reference", key_path, ReferenceFile(d, key_path))
    IN  [reference_cache |->
             Store(st.reference_cache, key_path, DOMAIN parsed),
         translations |->
             Store(st.translations, reference_locale,
                   Update(Lookup(st.translations, reference_locale),
                          Entries(ExperimentId(key_path), parsed)))]

\* "if key_path not in reference_cache": read the reference file once
CacheReference(d, st, key_path) ==
    IF key_path \in DOMAIN st.reference_cache
    THEN st
    ELSE LET parsed == Parse("reference", key_path, ReferenceFile(d, key_path))
         IN  [reference_cache |->
                  Store(st.reference_cache, key_path, DOMAIN parsed),
              translations |->
                  Store(st.translations, reference_locale,
                        Update(Lookup(st.translations, reference_locale),
                               Entries(ExperimentId(key_path), parsed)))]

\* self.translations[locale].update(... the localized file's entities ...)
ReadLocalized(d, st, locale, key_path) ==
    LET parsed == Parse(locale, key_path, L10nFile(d, locale, key_path))
    IN  [st EXCEPT !.translations =
            Store(st.translations, locale,
                  Update(Lookup(st.translations, locale),
                         Entries(ExperimentId(key_path), parsed)))]

\* the body of the inner loop for a pair that is not skipped
ProcessedPair(d, st, locale, key_path) ==
    ReadLocalized(d, CacheReference(d, st, key_path), locale, key_path)

\* Variant of RemoveObsolete: nothing is removed.
RemoveObsoleteKeepsAll(table, locale) ==
    Store(table, locale, Lookup(table, locale))

\* "Remove obsolete strings not available in the reference locale"
RemoveObsolete(table, locale) ==
    LET messages == Lookup(table, locale)
        kept == { k \in DOMAIN messages :
                    k \in DOMAIN Lookup(table, reference_locale) }
    IN  Store(table, locale, [k \in kept |-> messages[k]])

\* Variant of LocaleDone: the test of the locale is inverted.
LocaleDoneInverted(table, locale) ==
    IF locale = reference_locale
    THEN RemoveObsolete(table, locale)
    ELSE Store(table, locale, Lookup(table, locale))

\* the end of the outer loop's body: the filter, then the count that is printed
LocaleDone(table, locale) ==
    IF locale # reference_locale
    THEN RemoveObsolete(table, locale)
    ELSE Store(table, locale, Lookup(table, locale))

\* the inner loop over the files of one locale, from position i on
RECURSIVE FilesFrom(_, _, _, _, _)
FilesFrom(d, st, locale, files, i) ==
    IF i > Len(files) THEN st
    ELSE FilesFrom(d,
                   IF PairSkipped(d, locale, files[i])
                   THEN st
                   ELSE ProcessedPair(d, st, locale, files[i]),
                   locale, files, i + 1)

\* the outer loop over the locales, from position i on
RECURSIVE LocalesFrom(_, _, _, _, _)
LocalesFrom(d, st, locales, files, i) ==
    IF i > Len(locales) THEN st
    ELSE LET read == FilesFrom(d, st, locales[i], files, 1)
         IN  LocalesFrom(d,
                         [read EXCEPT !.translations =
                             LocaleDone(read.translations, locales[i])],
                         locales, files, i + 1)

\* self.translations after extractStrings on a list of locales
ExtractStringsOf(d, locales, files) ==
    LocalesFrom(d, [translations |-> EmptyDict, reference_cache |-> EmptyDict],
                locales, files, 1).translations

(***************************************************************************)
(* getTranslations.                                                        *)
(***************************************************************************)
\* Python orders str by code point
CodePoints ==
    [l \in Locales |->
        CASE l = "de" -> <<100, 101>>
          [] l = "en-US" -> <<101, 110, 45, 85, 83>>
          [] l = "fr" -> <<102, 114>>]

StrLess(a, b) ==
    \E i \in 1..(Min(Len(a), Len(b)) + 1) :
        /\ \A j \in 1..(i - 1) : a[j] = b[j]
        /\ \/ i > Len(a) /\ i <= Len(b)
           \/ i <= Len(a) /\ i <= Len(b) /\ a[i] < b[i]

\* list.sort() of a list of distinct locale codes, given as their set
RECURSIVE SortLocales(_)
SortLocales(S) ==
    IF S = {} THEN <<>>
    ELSE LET m == CHOOSE m \in S :
                      \A x \in S \ {m} : StrLess(CodePoints[m], CodePoints[x])
         IN  <<m>> \o SortLocales(S \ {m})

Range(seq) == { seq[i] : i \in DOMAIN seq }

\* "experiment_id, message_id = full_id.split(":")" needs exactly two pieces
Unpacks(table) ==
    \A l \in DOMAIN table : \A full_id \in DOMAIN table[l] :
        Len(Split(full_id)) = 2

\* the first loop: experiment -> locale -> message id -> translation
Inverted(table) ==
    LET experiments == { Split(full_id)[1] :
                            full_id \in UNION { DOMAIN table[l] : l \in DOMAIN table } }
        ids(l, e) == { full_id \in DOMAIN table[l] : Split(full_id)[1] = e }
    IN  [e \in experiments |->
            [l \in { l \in DOMAIN table : ids(l, e) # {} } |->
                [m \in { Split(full_id)[2] : full_id \in ids(l, e) } |->
                    table[l][CHOOSE full_id \in ids(l, e) :
                                 Split(full_id)[2] = m]]]]

\* exp_data["translations"][self.reference_locale] on a defaultdict
WithReference(exp_translations) ==
    IF reference_locale \in DOMAIN exp_translations
    THEN exp_translations
    ELSE Store(exp_translations, reference_locale, EmptyDict)

\* Variant of IsComplete: the difference is taken the other way round.
IsCompleteReversed(reference_ids, l10n_ids) == l10n_ids \ reference_ids = {}

\* "if len(set(reference_ids) - set(l10n_ids)) == 0"
IsComplete(reference_ids, l10n_ids) == reference_ids \ l10n_ids = {}

\* the locales of one experiment that are appended to complete_locales
CompleteLocales(exp_translations) ==
    LET locales == SortLocales(DOMAIN exp_translations)
        reference_ids == DOMAIN WithReference(exp_translations)[reference_locale]
        complete(l) == IsComplete(reference_ids, DOMAIN exp_translations[l])
    IN  SortLocales(Range(SelectSeq(locales, complete)))

IncompleteLocales(exp_translations) ==
    DOMAIN exp_translations \ Range(CompleteLocales(exp_translations))

\* Variant of IsPartialExperiment: compares with the empty list.
IsPartialExperimentEmpty(exp_translations) ==
    DOMAIN exp_translations \ IncompleteLocales(exp_translations) = {}

\* "if list(set(locales) - set(incomplete_locales)) == [self.reference_locale]"
IsPartialExperiment(exp_translations) ==
    DOMAIN exp_translations \ IncompleteLocales(exp_translations)
        = {reference_locale}

\* Variant of ExperimentData: the incomplete locales are not deleted.
ExperimentDataKeepsPartial(exp_translations) ==
    [translations |-> WithReference(exp_translations),
     complete_locales |-> CompleteLocales(exp_translations)]

\* one experiment's record after the second loop
ExperimentData(exp_translations) ==
    LET all == WithReference(exp_translations)
    IN  [translations |->
            [l \in DOMAIN all \ IncompleteLocales(exp_translations) |-> all[l]],
         complete_locales |-> CompleteLocales(exp_translations)]

\* the value getTranslations returns for a table whose keys all unpack
GetTranslationsOf(table) ==
    LET inv == Inverted(table)
    IN  [e \in { e \in DOMAIN inv : ~IsPartialExperiment(inv[e]) } |->
            ExperimentData(inv[e])]

\* os.path.join(args.dest_path, f"{exp_id}.json"), relative to dest_path
FileName(exp_id) == exp_id \o <<".json">>

(***************************************************************************)
(* The state machine.                                                      *)
(***************************************************************************)
Init ==
    /\ all_locales \in LocaleLists
    /\ project_files \in FileLists
    /\ disk \in { [reference |-> r, l10n |-> l] :
                    r \in ReferenceDisks(project_files),
                    l \in LocalizedDisks(Range(all_locales), project_files) }
    /\ translations = EmptyDict
    /\ reference_cache = EmptyDict
    /\ li = 1
    /\ fi = 1
    /\ pc = "extractStrings"
    /\ json_output = EmptyDict
    /\ written = EmptyDict

InLocale == pc = "extractStrings" /\ li <= Len(all_locales)

InPair == InLocale /\ fi <= Len(project_files)

\* one of the "continue" statements is taken
SkipPair ==
    /\ InPair
    /\ PairSkipped(disk, all_locales[li], project_files[fi])
    /\ fi' = fi + 1
    /\ UNCHANGED <<all_locales, project_files, disk, translations,
                   reference_cache, li, pc, json_output, written>>

\* the pair is read: the reference file if it is new, then the localized file
ProcessPair ==
    /\ InPair
    /\ ~PairSkipped(disk, all_locales[li], project_files[fi])
    /\ LET st == ProcessedPair(disk,
                     [translations |-> translations,
                      reference_cache |-> reference_cache],
                     all_locales[li], project_files[fi])
       IN  /\ translations' = st.translations
           /\ reference_cache' = st.reference_cache
    /\ fi' = fi + 1
    /\ UNCHANGED <<all_locales, project_files, disk, li, pc, json_output, written>>

\* the files of a locale are exhausted: filter it and go to the next locale
FinishLocale ==
    /\ InLocale
    /\ fi > Len(project_files)
    /\ translations' = LocaleDone(translations, all_locales[li])
    /\ li' = li + 1
    /\ fi' = 1
    /\ UNCHANGED <<all_locales, project_files, disk, reference_cache, pc,
                   json_output, written>>

\* extractStrings has returned; main calls getTranslations
GetTranslations ==
    /\ pc = "extractStrings"
    /\ li > Len(all_locales)
    /\ IF Unpacks(translations)
       THEN /\ json_output' = GetTranslationsOf(translations)
            /\ pc' = "write"
       ELSE /\ json_output' = json_output
            /\ pc' = "ValueError"
    /\ UNCHANGED <<all_locales, project_files, disk, translations,
                   reference_cache, li, fi, written>>

\* the loop of main that writes one file per experiment
WriteFiles ==
    /\ pc = "write"
    /\ written' = [name \in { FileName(e) : e \in DOMAIN json_output } |->
                      json_output[CHOOSE e \in DOMAIN json_output :
                                      FileName(e) = name]]
    /\ pc' = "done"
    /\ UNCHANGED <<all_locales, project_files, disk, translations,
                   reference_cache, li, fi, json_output>>

Next ==
    \/ SkipPair
    \/ ProcessPair
    \/ FinishLocale
    \/ GetTranslations
    \/ WriteFiles

Spec == Init /\ [][Next]_vars

(***************************************************************************)
(* Vocabulary of the properties, stated on the translation table itself.   *)
(***************************************************************************)
MessageIdUniverse == {Hello, Bye}

ExperimentUniverse == { ExperimentId(p) : p \in AllPaths }

\* extractStrings has returned
Extracted == pc # "extractStrings" \/ li > Len(all_locales)

\* getTranslations has returned
Returned == pc \in {"write", "done"}

\* the message ids a locale holds for an experiment in the table
MessageIds(l, e) ==
    { m \in MessageIdUniverse :
        CompositeKey(e, m) \in DOMAIN Lookup(translations, l) }

ReferenceIds(e) == MessageIds(reference_locale, e)

\* the locales that hold something for an experiment and miss no reference id
CompleteFor(e) ==
    { l \in Locales : MessageIds(l, e) # {} /\ ReferenceIds(e) \subseteq MessageIds(l, e) }

Ascending(list) ==
    \A i, j \in DOMAIN list :
        i < j => StrLess(CodePoints[list[i]], CodePoints[list[j]])

\* C1: in the result of getTranslations, every experiment's complete_locales
\* is sorted in ascending order and holds only locales whose message ids for
\* the experiment include all of the reference locale's.
C1_CompleteLocalesSortedAndComplete ==
    Returned =>
        \A e \in DOMAIN json_output :
            /\ Ascending(json_output[e].complete_locales)
            /\ \A l \in Range(json_output[e].complete_locales) :
                   ReferenceIds(e) \subseteq MessageIds(l, e)

\* three complete locales, listed in another order than they were processed
C1_Witness ==
    /\ pc = "done"
    /\ all_locales = <<"fr", "de">>
    /\ \E e \in DOMAIN json_output :
           /\ json_output[e].complete_locales = <<"de", "en-US", "fr">>
           /\ ReferenceIds(e) = {Hello, Bye}

\* C2: a locale is in an experiment's translations only if it has every
\* message id of the reference locale; a locale that misses one is in neither
\* the translations nor complete_locales, one that has all is in both.
C2_OnlyCompleteLocalesKept ==
    Returned =>
        \A e \in DOMAIN json_output : \A l \in Locales :
            /\ l \in DOMAIN json_output[e].translations
                   => ReferenceIds(e) \subseteq MessageIds(l, e)
            /\ ~(ReferenceIds(e) \subseteq MessageIds(l, e))
                   => /\ l \notin DOMAIN json_output[e].translations
                      /\ l \notin Range(json_output[e].complete_locales)
            /\ (MessageIds(l, e) # {} /\ ReferenceIds(e) \subseteq MessageIds(l, e))
                   => /\ l \in Range(json_output[e].complete_locales)
                      /\ l \in DOMAIN json_output[e].translations

\* de holds {hello} against the reference's {hello, bye}; fr holds both
C2_Witness ==
    /\ pc = "done"
    /\ \E e \in DOMAIN json_output :
           /\ ReferenceIds(e) = {Hello, Bye}
           /\ MessageIds("de", e) = {Hello}
           /\ MessageIds("fr", e) = {Hello, Bye}
           /\ "de" \notin DOMAIN json_output[e].translations
           /\ json_output[e].complete_locales = <<"en-US", "fr">>

\* C3: no experiment of the result has complete_locales = [reference_locale];
\* each has a complete locale other than the reference, and an experiment for
\* which only the reference locale is complete is not in the result and gets
\* no output file.
C3_NoReferenceOnlyExperiment ==
    /\ Returned =>
          /\ \A e \in DOMAIN json_output :
                 /\ json_output[e].complete_locales # <<reference_locale>>
                 /\ \E l \in Range(json_output[e].complete_locales) :
                        l # reference_locale
          /\ \A e \in ExperimentUniverse :
                 CompleteFor(e) = {reference_locale} => e \notin DOMAIN json_output
    /\ pc = "done" =>
          /\ DOMAIN written = { FileName(e) : e \in DOMAIN json_output }
          /\ \A e \in ExperimentUniverse :
                 CompleteFor(e) = {reference_locale}
                     => FileName(e) \notin DOMAIN written

\* one experiment is dropped, for only the reference is complete, one is kept
C3_Witness ==
    /\ pc = "done"
    /\ CompleteFor(<<"x">>) = {reference_locale}
    /\ MessageIds("de", <<"x">>) # {}
    /\ <<"x">> \notin DOMAIN json_output
    /\ <<"y">> \in DOMAIN json_output
    /\ DOMAIN written = { FileName(<<"y">>) }

\* C4: every experiment of the result has the reference locale in its
\* translations with at least one message and in complete_locales; no
\* experiment of the extracted table lacks a reference-locale entry.
C4_ReferenceAlwaysPresent ==
    /\ Returned =>
          \A e \in DOMAIN json_output :
              /\ reference_locale \in DOMAIN json_output[e].translations
              /\ DOMAIN json_output[e].translations[reference_locale] # {}
              /\ reference_locale \in Range(json_output[e].complete_locales)
    /\ Extracted =>
          \A e \in ExperimentUniverse : \A l \in Locales :
              MessageIds(l, e) # {} => ReferenceIds(e) # {}

\* the reference locale is not in the locale list and an empty reference
\* file was read, yet the reference is in the result
C4_Witness ==
    /\ pc = "done"
    /\ reference_locale \notin Range(all_locales)
    /\ \E p \in DOMAIN reference_cache : reference_cache[p] = {}
    /\ \E e \in DOMAIN json_output :
           reference_locale \in Range(json_output[e].complete_locales)

\* C5: once a locale other than the reference has been filtered, and until
\* the end of the run, each of its keys is a key of the reference locale's
\* table.
C5_RetainedKeysInReference ==
    \A i \in DOMAIN all_locales :
        (i < li /\ all_locales[i] # reference_locale) =>
            DOMAIN Lookup(translations, all_locales[i])
                \subseteq DOMAIN Lookup(translations, reference_locale)

\* the first locale lost a key to the filter, and the second is being read
C5_Witness ==
    /\ pc = "extractStrings"
    /\ li = 2
    /\ fi = 4
    /\ all_locales[1] # reference_locale
    /\ disk.l10n[<<all_locales[1], PathA>>].keys = {Hello, Bye}
    /\ disk.reference[PathA].keys = {Hello}
    /\ DOMAIN Lookup(translations, all_locales[1]) = { CompositeKey(<<"x">>, Hello) }

\* the pair the inner loop is at cannot be read: a file is absent, or the
\* reference file has a format without parser
CurrentPairUnreadable ==
    LET l == all_locales[li]
        p == project_files[fi]
    IN  \/ ~disk.l10n[<<l, p>>].exists
        \/ ~disk.reference[p].exists
        \/ p[Len(p)] \notin SupportedExtensions

\* C6: a pair whose localized file is absent, whose reference file is absent
\* or whose reference file has an unsupported format is skipped without
\* raising: the step leaves the translation table and the reference cache as
\* they were and moves on to the next pair of the same locale.
C6_UnreadablePairSkipped ==
    [][ (InPair /\ CurrentPairUnreadable) =>
            /\ translations' = translations
            /\ reference_cache' = reference_cache
            /\ pc' = pc
            /\ li' = li
            /\ fi' = fi + 1 ]_vars

\* the second locale met all three reasons in turn, with a table already filled
C6_Witness ==
    /\ pc = "extractStrings"
    /\ li = 2
    /\ fi = 4
    /\ ~disk.l10n[<<all_locales[2], project_files[1]>>].exists
    /\ disk.reference[project_files[1]].exists
    /\ ~HasParser(project_files[2])
    /\ disk.l10n[<<all_locales[2], project_files[3]>>].exists
    /\ ~disk.reference[project_files[3]].exists
    /\ DOMAIN Lookup(translations, all_locales[1]) # {}
    /\ all_locales[2] \notin DOMAIN translations

\* the files of locale l, by position in project_files, that are read and
\* hold message m of experiment e
FilesHolding(l, e, m) ==
    { i \in DOMAIN project_files :
        /\ ExperimentId(project_files[i]) = e
        /\ disk.l10n[<<l, project_files[i]>>].exists
        /\ disk.reference[project_files[i]].exists
        /\ project_files[i][Len(project_files[i])] \in SupportedExtensions
        /\ m \in disk.l10n[<<l, project_files[i]>>].keys }

Last(S) == CHOOSE i \in S : \A j \in S : j <= i

\* the file a text was read from
TextOf(l, i) == <<l, project_files[i][1]>>

C9_ReferenceFileReadOnce ==
    [][ /\ DOMAIN reference_cache \subseteq DOMAIN reference_cache'
        /\ (InPair /\ ~CurrentPairUnreadable) =>
              LET l == all_locales[li]
                  p == project_files[fi]
                  before == Lookup(translations, reference_locale)
                  after == Lookup(translations', reference_locale)
                  own == IF l = reference_locale
                         THEN { CompositeKey(ExperimentId(p), m) :
                                   m \in disk.l10n[<<l, p>>].keys }
                         ELSE {}
                  fromReference ==
                      { CompositeKey(ExperimentId(p), m) :
                           m \in disk.reference[p].keys }
              IN  IF p \in DOMAIN reference_cache
                  THEN /\ reference_cache' = reference_cache
                       /\ DOMAIN after = DOMAIN before \cup own
                       /\ \A k \in DOMAIN before \ own : after[k] = before[k]
                  ELSE /\ p \in DOMAIN reference_cache'
                       /\ reference_cache'[p] = disk.reference[p].keys
                       /\ DOMAIN after = DOMAIN before \cup fromReference \cup own
                       /\ \A k \in fromReference \ own :
                              after[k] = <<"reference", p[1]>> ]_vars

\* the second locale has just visited a/x.ftl, which the first locale had
\* read before b/x.ftl overwrote the text of hello: the later text stands
C9_Witness ==
    /\ pc = "extractStrings"
    /\ li = 2
    /\ fi = 2
    /\ all_locales[2] # reference_locale
    /\ disk.l10n[<<all_locales[1], PathA>>].exists
    /\ disk.l10n[<<all_locales[2], PathA>>].exists
    /\ PathA \in DOMAIN reference_cache
    /\ PathBx \in DOMAIN reference_cache
    /\ Hello \in reference_cache[PathA] \cap reference_cache[PathBx]
    /\ translations[reference_locale][CompositeKey(<<"x">>, Hello)]
           = <<"reference", "b">>

(***************************************************************************)
(* The table of a run that filters nothing while it reads and discards,    *)
(* in one pass at the end, what the final reference table lacks.           *)
(***************************************************************************)
RECURSIVE CollectFrom(_, _, _, _, _)
CollectFrom(d, st, locales, files, i) ==
    IF i > Len(locales) THEN st
    ELSE CollectFrom(d, FilesFrom(d, st, locales[i], files, 1),
                     locales, files, i + 1)

DeferredFilter(d, locales, files) ==
    LET collected ==
            CollectFrom(d, [translations |-> EmptyDict,
                            reference_cache |-> EmptyDict],
                        locales, files, 1).translations
        reference == DOMAIN Lookup(collected, reference_locale)
    IN  [l \in Locales |->
            IF l = reference_locale
            THEN Lookup(collected, l)
            ELSE [k \in DOMAIN Lookup(collected, l) \cap reference |->
                     collected[l][k]]]

\* C8: the table extractStrings leaves is the table of the deferred filter:
\* every locale other than the reference keeps exactly the keys it read that
\* the final reference table has.
C8_FilterSeesFullReference ==
    Extracted =>
        \A l \in Locales :
            Lookup(translations, l)
                = DeferredFilter(disk, all_locales, project_files)[l]

Reorderings(seq) ==
    { s \in [DOMAIN seq -> Range(seq)] : Range(s) = Range(seq) }

\* C10: the result of getTranslations is the same for every order of the
\* locale list.
C10_OutputIndependentOfLocaleOrder ==
    pc = "done" =>
        \A order \in Reorderings(all_locales) :
            json_output
                = GetTranslationsOf(ExtractStringsOf(disk, order, project_files))

\* the stepwise run and the loops taken as a whole leave the same table
StepsAgreeWithLoops ==
    Extracted =>
        translations = ExtractStringsOf(disk, all_locales, project_files)

====
